---- MODULE Spec2Model ----
(***************************************************************************)
(* Model of pkg/kubernetes/informers.go: the per-identity InformerManager  *)
(* registry (NewInformer), the lazily created informers behind the         *)
(* Add*Listener calls, the Get*Lister calls and the Listen barrier.         *)
(*                                                                         *)
(* Callers are goroutines; every statement of a call that reads or writes  *)
(* shared state is a step of its own, so that interleavings of concurrent  *)
(* calls are explored.  The client-go primitives the file calls (shared    *)
(* informer factory, shared index informer, cache.WaitForCacheSync) are    *)
(* modelled by what they do to the state the file observes.                *)
(***************************************************************************)
EXTENDS Integers, Sequences, FiniteSets, TLC

\* ------------------------------------------------------------------ bounds
\* total number of NewInformer calls issued in a behaviour
MaxNewInformerCalls == 3

\* ------------------------------------------------------------------ sets
Goroutines == {"g1", "g2"}
\* the goroutine that sets the manager up
Caller     == "g1"
Clients    == {"c1", "c2"}
Nil        == "nil"
\* the nil *InformerManager; managers are addressed by their index in heap
NilManager == 0
NoHolder   == "unlocked"
\* the nil channel; channels are named by who made them and a number
NilChan    == <<"nil", 0>>
\* the resource kinds an informer can watch
Resources  == {"Node", "CSINode", "PersistentVolumeClaim", "PersistentVolume",
               "Namespace", "ConfigMap", "Pod", "VolumeAttachment"}

VARIABLES
    \* ---- package-level state (informers.go:45-50)
    inClusterInformerManagerInstance,
    inClusterInformerInstanceLock,
    supervisorInformerManagerInstance,
    supervisorInformerInstanceLock,
    \* ---- the InformerManager objects constructed so far (informers.go:77-81)
    heap,
    \* ---- calling goroutines: position and locals of the call in progress
    pc,
    op,
    \* ---- the calls the callers may still issue, by name and in total,
    \* and the NewInformer calls that have returned
    budget,
    calls,
    returned,
    \* ---- the shared index informers created so far, by informer id
    informers,
    \* ---- the stop channels that have been closed
    closed,
    \* ---- goroutines launched and not yet run: `go informerFactory.Start`
    \* (line 264) and `go configMapInformer.Run` (line 204)
    startTasks,
    runTasks,
    \* ---- record of completed calls: registrations, Listen results, listers
    regs,
    listened,
    listers

registryVars == <<inClusterInformerManagerInstance, inClusterInformerInstanceLock,
                  supervisorInformerManagerInstance, supervisorInformerInstanceLock,
                  heap, returned>>
callerVars == <<pc, op, budget, calls>>
managerVars == <<informers, closed, startTasks, runTasks, regs, listened, listers>>
vars == <<registryVars, callerVars, managerVars>>

NoOp == [name |-> "none"]

\* how often the same Add*Listener, Get*Lister or Listen call is issued
MaxRepeat == 1
\* how often the same listener is registered where repetition is the point
MaxSameListener == 2
\* total number of calls issued on the manager in a behaviour
MaxCalls == 5
\* the same where the callers also take listers before they call Listen
MaxStartupCalls == 6

\* ------------------------------------------------------------------ tables
\* the manager under study is the first one constructed
Self == 1
im == heap[Self]

Listeners == {"AddNodeListener", "AddCSINodeListener", "AddPVCListener",
              "AddPVListener", "AddNamespaceListener", "AddConfigMapListener",
              "AddPodListener", "AddVolumeAttachmentListener"}

\* the InformerManager field an Add*Listener call nil-checks, fills and uses
\* (lines 98, 115, 132, 150, 168, 187, 210, 228)
ListenerField(l) ==
    CASE l = "AddNodeListener"             -> "nodeInformer"
      [] l = "AddCSINodeListener"          -> "nodeInformer"
      [] l = "AddPVCListener"              -> "pvcInformer"
      [] l = "AddPVListener"               -> "pvInformer"
      [] l = "AddNamespaceListener"        -> "namespaceInformer"
      [] l = "AddConfigMapListener"        -> "configMapInformer"
      [] l = "AddPodListener"              -> "podInformer"
      [] l = "AddVolumeAttachmentListener" -> "volumeAttachmentInformer"

\* the resource kind of the informer the call constructs when the field is nil
\* (lines 99, 116, 133, 151, 169, 188, 211, 229)
ListenerResource(l) ==
    CASE l = "AddNodeListener"             -> "Node"
      [] l = "AddCSINodeListener"          -> "CSINode"
      [] l = "AddPVCListener"              -> "PersistentVolumeClaim"
      [] l = "AddPVListener"               -> "PersistentVolume"
      [] l = "AddNamespaceListener"        -> "Namespace"
      [] l = "AddConfigMapListener"        -> "ConfigMap"
      [] l = "AddPodListener"              -> "Pod"
      [] l = "AddVolumeAttachmentListener" -> "VolumeAttachment"

\* a namespace listener that assigned the pod listener's synced field
ListenerSyncedShared(l) ==
    CASE l = "AddPVCListener"       -> "pvcSynced"
      [] l = "AddPVListener"        -> "pvSynced"
      [] l = "AddNamespaceListener" -> "podSynced"
      [] l = "AddConfigMapListener" -> "configMapSynced"
      [] l = "AddPodListener"       -> "podSynced"
      [] OTHER                      -> Nil

\* the synced field the call assigns, Nil when it assigns none
\* (lines 135, 153, 171, 191, 213)
ListenerSynced(l) ==
    CASE l = "AddPVCListener"       -> "pvcSynced"
      [] l = "AddPVListener"        -> "pvSynced"
      [] l = "AddNamespaceListener" -> "namespaceSynced"
      [] l = "AddConfigMapListener" -> "configMapSynced"
      [] l = "AddPodListener"       -> "podSynced"
      [] OTHER                      -> Nil

\* the resource kind a caller of the listener wants to be told about
ListenerKind(l) == ListenerResource(l)

\* ids of the informers NewFilteredConfigMapInformer returns, in order
FilteredIds == <<"cm1", "cm2", "cm3", "cm4", "cm5", "cm6", "cm7", "cm8">>

CallNames == Listeners \cup {"NewInformer", "Listen", "GetPVLister", "GetPVCLister",
                             "GetConfigMapLister", "GetPodLister"}

\* ------------------------------------------------- client-go primitives
\* a shared index informer as its constructor leaves it
NewSharedIndexInformer(resource, client) ==
    [resource |-> resource, client |-> client, handlers |-> << >>,
     state |-> "created", stopCh |-> NilChan, synced |-> FALSE]

\* SharedIndexInformer.HasSynced: false until Run has completed the first list
HasSynced(id) == informers[id].synced

\* whether AddEventHandler accepts a handler: it refuses once stopped
AcceptsHandler(id) == informers[id].state # "stopped"

\* the next unused id of a filtered informer
FreshFiltered ==
    FilteredIds[Cardinality({i \in DOMAIN informers : i \notin Resources}) + 1]

\* ------------------------------------------------------------ NewInformer
\* the slot and the lock the call selects by its inClusterClnt flag
\* a call that reads the in-cluster slot whatever its flag
InstanceOfInCluster(inClusterClnt) == inClusterInformerManagerInstance

InstanceOf(inClusterClnt) ==
    IF inClusterClnt THEN inClusterInformerManagerInstance
                     ELSE supervisorInformerManagerInstance

\* one mutex for both identities
LockOfShared(inClusterClnt) == inClusterInformerInstanceLock

LockOf(inClusterClnt) ==
    IF inClusterClnt THEN inClusterInformerInstanceLock
                     ELSE supervisorInformerInstanceLock

\* a Lock that does not exclude: it succeeds whoever holds the mutex
MutexFreeNoExclusion(holder) == TRUE

\* sync.Mutex.Lock succeeds only when nobody holds the mutex
MutexFree(holder) == holder = NoHolder

\* the struct literal of line 77: client from the call, a stop channel from
\* the signal handler, a fresh shared informer factory
NewManager(client, n) ==
    [client |-> client,
     stopCh |-> <<"signal", n>>,
     informerFactory |-> [informers |-> [r \in Resources |-> Nil],
                          startedInformers |-> {}],
     nodeInformer |-> Nil, pvcInformer |-> Nil, pvInformer |-> Nil,
     namespaceInformer |-> Nil, configMapInformer |-> Nil, podInformer |-> Nil,
     volumeAttachmentInformer |-> Nil,
     pvcSynced |-> Nil, pvSynced |-> Nil, namespaceSynced |-> Nil,
     configMapSynced |-> Nil, podSynced |-> Nil]

\* a goroutine enters NewInformer(ctx, client, inClusterClnt)
NewInformerCall(g) ==
    /\ pc[g] = "idle"
    /\ budget["NewInformer"] > 0
    /\ \E c \in Clients, f \in BOOLEAN :
         op' = [op EXCEPT ![g] = [name |-> "NewInformer", client |-> c,
                                  inClusterClnt |-> f, informerInstance |-> NilManager]]
    /\ pc' = [pc EXCEPT ![g] = "ni_lock"]
    /\ budget' = [budget EXCEPT !["NewInformer"] = @ - 1]
    /\ UNCHANGED calls
    /\ UNCHANGED <<registryVars, managerVars>>

\* lines 64-66 / 69-71: Lock() of the identity's mutex (unlock is deferred)
NewInformerLock(g) ==
    /\ pc[g] = "ni_lock"
    /\ MutexFree(LockOf(op[g].inClusterClnt))
    /\ IF op[g].inClusterClnt
         THEN /\ inClusterInformerInstanceLock' = g
              /\ UNCHANGED supervisorInformerInstanceLock
         ELSE /\ supervisorInformerInstanceLock' = g
              /\ UNCHANGED inClusterInformerInstanceLock
    /\ pc' = [pc EXCEPT ![g] = "ni_read"]
    /\ UNCHANGED <<inClusterInformerManagerInstance, supervisorInformerManagerInstance,
                   heap, returned, op, budget, calls, managerVars>>

\* lines 68 / 73: informerInstance = <slot of the identity>
NewInformerRead(g) ==
    /\ pc[g] = "ni_read"
    /\ op' = [op EXCEPT ![g].informerInstance = InstanceOf(op[g].inClusterClnt)]
    /\ pc' = [pc EXCEPT ![g] = "ni_create"]
    /\ UNCHANGED <<registryVars, budget, calls, managerVars>>

\* lines 76-81: if informerInstance == nil, construct a manager
NewInformerCreate(g) ==
    /\ pc[g] = "ni_create"
    /\ IF op[g].informerInstance = NilManager
         THEN /\ heap' = Append(heap, NewManager(op[g].client, Len(heap) + 1))
              /\ op' = [op EXCEPT ![g].informerInstance = Len(heap) + 1]
              /\ pc' = [pc EXCEPT ![g] = "ni_store"]
         ELSE /\ pc' = [pc EXCEPT ![g] = "ni_return"]
              /\ UNCHANGED <<heap, op>>
    /\ UNCHANGED <<inClusterInformerManagerInstance, inClusterInformerInstanceLock,
                   supervisorInformerManagerInstance, supervisorInformerInstanceLock,
                   returned, budget, calls, managerVars>>

\* lines 83-89: store the new manager in the identity's slot
NewInformerStore(g) ==
    /\ pc[g] = "ni_store"
    /\ IF op[g].inClusterClnt
         THEN /\ inClusterInformerManagerInstance' = op[g].informerInstance
              /\ UNCHANGED supervisorInformerManagerInstance
         ELSE /\ supervisorInformerManagerInstance' = op[g].informerInstance
              /\ UNCHANGED inClusterInformerManagerInstance
    /\ pc' = [pc EXCEPT ![g] = "ni_return"]
    /\ UNCHANGED <<inClusterInformerInstanceLock, supervisorInformerInstanceLock,
                   heap, returned, op, budget, calls, managerVars>>

\* line 92 and the deferred Unlock of lines 66 / 71
NewInformerReturn(g) ==
    /\ pc[g] = "ni_return"
    /\ returned' = Append(returned, [inClusterClnt |-> op[g].inClusterClnt,
                                     client |-> op[g].client,
                                     result |-> op[g].informerInstance])
    /\ IF op[g].inClusterClnt
         THEN /\ inClusterInformerInstanceLock' =
                   IF inClusterInformerInstanceLock = g THEN NoHolder
                   ELSE inClusterInformerInstanceLock
              /\ UNCHANGED supervisorInformerInstanceLock
         ELSE /\ supervisorInformerInstanceLock' =
                   IF supervisorInformerInstanceLock = g THEN NoHolder
                   ELSE supervisorInformerInstanceLock
              /\ UNCHANGED inClusterInformerInstanceLock
    /\ pc' = [pc EXCEPT ![g] = "idle"]
    /\ op' = [op EXCEPT ![g] = NoOp]
    /\ UNCHANGED <<inClusterInformerManagerInstance, supervisorInformerManagerInstance,
                   heap, budget, calls, managerVars>>

NewInformer(g) ==
    \/ NewInformerCall(g)
    \/ NewInformerLock(g)
    \/ NewInformerRead(g)
    \/ NewInformerCreate(g)
    \/ NewInformerStore(g)
    \/ NewInformerReturn(g)

\* a caller may issue the call: the workload has one of its kind and one
\* of any kind left
CanCall(name) == budget[name] > 0 /\ calls > 0

\* ----------------------------------------------------------- Add*Listener
slotVars == <<inClusterInformerManagerInstance, inClusterInformerInstanceLock,
              supervisorInformerManagerInstance, supervisorInformerInstanceLock,
              returned>>

\* number of calls of the listener begun so far; names the callback triple
CallsBegun(l) ==
    Cardinality({r \in regs : r.listener = l})
      + Cardinality({h \in Goroutines : op[h].name = l})

\* the statement after the nil-check block: the synced assignment if the
\* listener has one (lines 135, 153, 171, 191, 213), else AddEventHandler
AfterEnsure(l) == IF ListenerSynced(l) # Nil THEN "al_synced" ELSE "al_attach"

\* the registration the call leaves behind when it returns
Registration(g, l, id, ok, run) ==
    [listener |-> l, add |-> op[g].add, informer |-> id, accepted |-> ok,
     run |-> run]

\* a goroutine enters im.Add<l>(add, update, remove); only
\* AddConfigMapListener takes a client (line 185)
AddListenerCall(g, l) ==
    /\ pc[g] = "idle"
    /\ CanCall(l)
    /\ \E c \in (IF l = "AddConfigMapListener" THEN Clients ELSE {Nil}) :
         op' = [op EXCEPT ![g] = [name |-> l, add |-> <<l, CallsBegun(l) + 1>>,
                                  client |-> c]]
    /\ pc' = [pc EXCEPT ![g] = "al_check"]
    /\ budget' = [budget EXCEPT ![l] = @ - 1]
    /\ calls' = calls - 1
    /\ UNCHANGED <<registryVars, managerVars>>

\* `if im.<field> == nil` (lines 98, 115, 132, 150, 168, 187, 210, 228)
AddListenerCheck(g, l) ==
    /\ pc[g] = "al_check"
    /\ op[g].name = l
    /\ pc' = [pc EXCEPT ![g] = IF im[ListenerField(l)] = Nil THEN "al_create"
                                                              ELSE AfterEnsure(l)]
    /\ UNCHANGED <<registryVars, op, budget, calls, managerVars>>

\* `im.<field> = im.informerFactory...Informer()`: the factory returns the
\* informer it already holds for the resource or constructs one against its
\* client (lines 99, 116, 133, 151, 169, 211, 229)
AddListenerCreateShared(g, l) ==
    /\ pc[g] = "al_create"
    /\ op[g].name = l
    /\ l # "AddConfigMapListener"
    /\ LET r == ListenerResource(l) IN
         /\ informers' = IF im.informerFactory.informers[r] = Nil
                           THEN informers @@ (r :> NewSharedIndexInformer(r, im.client))
                           ELSE informers
         /\ heap' = [heap EXCEPT ![Self].informerFactory.informers[r] = r,
                                 ![Self][ListenerField(l)] = r]
    /\ pc' = [pc EXCEPT ![g] = AfterEnsure(l)]
    /\ UNCHANGED <<slotVars, op, budget, calls, closed, startTasks, runTasks, regs,
                   listened, listers>>

\* `im.configMapInformer = v1.NewFilteredConfigMapInformer(client, ...)`:
\* always a new informer, against the client of the call (lines 188-189)
AddListenerCreateFiltered(g, l) ==
    /\ pc[g] = "al_create"
    /\ op[g].name = l
    /\ l = "AddConfigMapListener"
    /\ informers' = informers @@
           (FreshFiltered :> NewSharedIndexInformer(ListenerResource(l), op[g].client))
    /\ heap' = [heap EXCEPT ![Self][ListenerField(l)] = FreshFiltered]
    /\ pc' = [pc EXCEPT ![g] = AfterEnsure(l)]
    /\ UNCHANGED <<slotVars, op, budget, calls, closed, startTasks, runTasks, regs,
                   listened, listers>>

\* `im.<x>Synced = im.<x>Informer.HasSynced` (lines 135, 153, 171, 191, 213)
AddListenerSynced(g, l) ==
    /\ pc[g] = "al_synced"
    /\ op[g].name = l
    /\ heap' = [heap EXCEPT ![Self][ListenerSynced(l)] = im[ListenerField(l)]]
    /\ pc' = [pc EXCEPT ![g] = "al_attach"]
    /\ UNCHANGED <<slotVars, op, budget, calls, managerVars>>

\* the config-map listener goes on to its run loop where every other
\* listener returns
LaunchesRunAlways(l, ok) == l = "AddConfigMapListener"

\* `if err != nil { return }` stands between the attachment and the run loop
\* of the config-map listener (lines 198-204); the other listeners launch
\* nothing
LaunchesRun(l, ok) == ok /\ l = "AddConfigMapListener"

\* `_, err := im.<field>.AddEventHandler(...)` with its outcome ok, then
\* `if err != nil { return }` and, for every listener but the config-map
\* one, the end of the function (lines 102-109 and alike, 193-200)
AddEventHandler(g, l, ok) ==
    /\ pc[g] = "al_attach"
    /\ op[g].name = l
    /\ LET id == im[ListenerField(l)] IN
         /\ informers' = IF ok
                           THEN [informers EXCEPT ![id].handlers = Append(@, op[g].add)]
                           ELSE informers
         /\ IF LaunchesRun(l, ok)
              THEN /\ pc' = [pc EXCEPT ![g] = "al_run"]
                   /\ op' = [op EXCEPT ![g] = [name |-> l, add |-> op[g].add,
                                               client |-> op[g].client,
                                               attached |-> id, accepted |-> ok]]
                   /\ UNCHANGED regs
              ELSE /\ pc' = [pc EXCEPT ![g] = "idle"]
                   /\ op' = [op EXCEPT ![g] = NoOp]
                   /\ regs' = regs \cup {Registration(g, l, id, ok, Nil)}
    /\ UNCHANGED <<registryVars, budget, calls, closed, startTasks, runTasks, listened, listers>>

\* the attachment as the informer answers it: an informer that has stopped
\* returns an error, any other takes the handler
AddListenerAttach(g, l) ==
    AddEventHandler(g, l, AcceptsHandler(im[ListenerField(l)]))

\* the attachment when AddEventHandler returns an error although the
\* informer has not stopped: the `err != nil` branch taken for a cause the
\* caller cannot see
AddListenerAttachRejected(g, l) ==
    /\ pc[g] = "al_attach"
    /\ op[g].name = l
    /\ AcceptsHandler(im[ListenerField(l)])
    /\ AddEventHandler(g, l, FALSE)

\* `stopCh := make(chan struct{})`; `go im.configMapInformer.Run(stopCh)`
\* (lines 201-204): the informer is the one the field holds now, the channel
\* is new and nobody else has it
AddListenerRun(g, l) ==
    /\ pc[g] = "al_run"
    /\ op[g].name = l
    /\ LET n == Cardinality({r \in regs : r.run # Nil}) + 1 IN
         /\ runTasks' = runTasks \cup {[informer |-> im[ListenerField(l)],
                                         stopCh |-> <<"private", n>>]}
         /\ regs' = regs \cup {Registration(g, l, op[g].attached, op[g].accepted,
                                             im[ListenerField(l)])}
    /\ pc' = [pc EXCEPT ![g] = "idle"]
    /\ op' = [op EXCEPT ![g] = NoOp]
    /\ UNCHANGED <<registryVars, budget, calls, informers, closed, startTasks, listened, listers>>

\* the statements every listener shares
AddListener(g, l) ==
    \/ AddListenerCall(g, l)
    \/ AddListenerCheck(g, l)
    \/ AddListenerSynced(g, l)
    \/ AddListenerAttach(g, l)

AddNodeListener(g) ==
    AddListener(g, "AddNodeListener") \/ AddListenerCreateShared(g, "AddNodeListener")
AddCSINodeListener(g) ==
    AddListener(g, "AddCSINodeListener") \/ AddListenerCreateShared(g, "AddCSINodeListener")
AddPVCListener(g) ==
    AddListener(g, "AddPVCListener") \/ AddListenerCreateShared(g, "AddPVCListener")
AddPVListener(g) ==
    AddListener(g, "AddPVListener") \/ AddListenerCreateShared(g, "AddPVListener")
AddNamespaceListener(g) ==
    AddListener(g, "AddNamespaceListener") \/ AddListenerCreateShared(g, "AddNamespaceListener")
AddConfigMapListener(g) ==
    \/ AddListener(g, "AddConfigMapListener")
    \/ AddListenerCreateFiltered(g, "AddConfigMapListener")
    \/ AddListenerRun(g, "AddConfigMapListener")
AddPodListener(g) ==
    AddListener(g, "AddPodListener") \/ AddListenerCreateShared(g, "AddPodListener")
AddVolumeAttachmentListener(g) ==
    AddListener(g, "AddVolumeAttachmentListener")
      \/ AddListenerCreateShared(g, "AddVolumeAttachmentListener")

\* ------------------------------------------------------------ Get*Lister
ListerNames == {"GetPVLister", "GetPVCLister", "GetConfigMapLister", "GetPodLister"}

\* the factory informer whose indexer the lister reads (lines 244, 249, 254, 259)
ListerResource(n) ==
    CASE n = "GetPVLister"        -> "PersistentVolume"
      [] n = "GetPVCLister"       -> "PersistentVolumeClaim"
      [] n = "GetConfigMapLister" -> "ConfigMap"
      [] n = "GetPodLister"       -> "Pod"

\* `return im.informerFactory.<group>.<Resource>().Lister()`: the factory
\* looks its informer for the resource up, constructing it when it has none,
\* and the lister reads that informer's cache
GetLister(g, n) ==
    /\ pc[g] = "idle"
    /\ CanCall(n)
    /\ budget' = [budget EXCEPT ![n] = @ - 1]
    /\ calls' = calls - 1
    /\ LET r == ListerResource(n) IN
         /\ informers' = IF im.informerFactory.informers[r] = Nil
                           THEN informers @@ (r :> NewSharedIndexInformer(r, im.client))
                           ELSE informers
         /\ heap' = [heap EXCEPT ![Self].informerFactory.informers[r] = r]
         /\ listers' = listers \cup {[name |-> n, informer |-> r]}
    /\ UNCHANGED <<slotVars, pc, op, closed, startTasks, runTasks, regs, listened>>

GetPVLister(g)        == GetLister(g, "GetPVLister")
GetPVCLister(g)       == GetLister(g, "GetPVCLister")
GetConfigMapLister(g) == GetLister(g, "GetConfigMapLister")
GetPodLister(g)       == GetLister(g, "GetPodLister")

\* ------------------------------------------------------------------ Listen
\* the synced fields line 265 tests and line 266 passes, in that order
Tracked == <<"pvSynced", "pvcSynced", "podSynced", "configMapSynced">>

\* the values of the four fields now
TrackedNow == [k \in 1..4 |-> im[Tracked[k]]]

\* the condition of line 265 on the four values read
BarrierCond(seen) == \A k \in 1..4 : seen[k] # Nil

\* the condition WaitForCacheSync polls: every function passed reports true
AllSynced(syncs) == \A k \in 1..4 : HasSynced(syncs[k])

\* a Listen that hands the live channel out although the wait failed
ResultOnFailureLive == im.stopCh

\* what Listen returns when WaitForCacheSync reports failure: the named
\* result stopCh is still its zero value (line 267)
ResultOnFailure == NilChan

\* a Listen whose last statement is a bare return
ResultAtEndUnset == NilChan

\* what Listen returns at its last statement (line 271)
ResultAtEnd == im.stopCh

NoSyncs == [k \in 1..4 |-> Nil]

\* what the call leaves behind when it returns: its result, the four fields
\* as line 265 read them, whether it went into WaitForCacheSync and with
\* which functions, and whether the stop channel was closed by then
Listened(result, seen, entered, syncs) ==
    [result |-> result, seen |-> seen, entered |-> entered, syncs |-> syncs,
     cancelled |-> im.stopCh \in closed]

\* a goroutine enters im.Listen(); `go im.informerFactory.Start(im.stopCh)`
\* (line 264)
ListenCall(g) ==
    /\ pc[g] = "idle"
    /\ CanCall("Listen")
    /\ budget' = [budget EXCEPT !["Listen"] = @ - 1]
    /\ calls' = calls - 1
    /\ startTasks' = startTasks + 1
    /\ op' = [op EXCEPT ![g] = [name |-> "Listen", seen |-> NoSyncs, syncs |-> NoSyncs]]
    /\ pc' = [pc EXCEPT ![g] = "ls_check"]
    /\ UNCHANGED <<registryVars, informers, closed, runTasks, regs, listened, listers>>

\* line 265: the four synced fields are tested; when one is nil the call
\* goes to line 271 and returns im.stopCh
ListenCheck(g) ==
    /\ pc[g] = "ls_check"
    /\ IF BarrierCond(TrackedNow)
         THEN /\ op' = [op EXCEPT ![g].seen = TrackedNow]
              /\ pc' = [pc EXCEPT ![g] = "ls_args"]
              /\ UNCHANGED listened
         ELSE /\ listened' = listened \cup
                     {Listened(ResultAtEnd, TrackedNow, FALSE, NoSyncs)}
              /\ op' = [op EXCEPT ![g] = NoOp]
              /\ pc' = [pc EXCEPT ![g] = "idle"]
    /\ UNCHANGED <<registryVars, budget, calls, informers, closed, startTasks, runTasks,
                   regs, listers>>

\* line 266: the arguments of WaitForCacheSync are read from the fields and
\* the condition is polled once at once
ListenWaitFirst(g) ==
    /\ pc[g] = "ls_args"
    /\ IF AllSynced(TrackedNow)
         THEN /\ listened' = listened \cup
                     {Listened(ResultAtEnd, op[g].seen, TRUE, TrackedNow)}
              /\ op' = [op EXCEPT ![g] = NoOp]
              /\ pc' = [pc EXCEPT ![g] = "idle"]
         ELSE /\ op' = [op EXCEPT ![g].syncs = TrackedNow]
              /\ pc' = [pc EXCEPT ![g] = "ls_wait"]
              /\ UNCHANGED listened
    /\ UNCHANGED <<registryVars, budget, calls, informers, closed, startTasks, runTasks,
                   regs, listers>>

\* WaitForCacheSync, a poll that finds every function true: it returns true
\* and Listen returns im.stopCh (line 271)
ListenWaitSynced(g) ==
    /\ pc[g] = "ls_wait"
    /\ AllSynced(op[g].syncs)
    /\ listened' = listened \cup {Listened(ResultAtEnd, op[g].seen, TRUE, op[g].syncs)}
    /\ op' = [op EXCEPT ![g] = NoOp]
    /\ pc' = [pc EXCEPT ![g] = "idle"]
    /\ UNCHANGED <<registryVars, budget, calls, informers, closed, startTasks, runTasks,
                   regs, listers>>

\* WaitForCacheSync, the stop channel is found closed: it returns false and
\* Listen returns at line 267
ListenWaitCancelled(g) ==
    /\ pc[g] = "ls_wait"
    /\ im.stopCh \in closed
    /\ listened' = listened \cup
           {Listened(ResultOnFailure, op[g].seen, TRUE, op[g].syncs)}
    /\ op' = [op EXCEPT ![g] = NoOp]
    /\ pc' = [pc EXCEPT ![g] = "idle"]
    /\ UNCHANGED <<registryVars, budget, calls, informers, closed, startTasks, runTasks,
                   regs, listers>>

Listen(g) ==
    \/ ListenCall(g)
    \/ ListenCheck(g)
    \/ ListenWaitFirst(g)
    \/ ListenWaitSynced(g)
    \/ ListenWaitCancelled(g)

\* ------------------------------------------------- background goroutines
\* a Start that finds nothing to start
UnstartedNone == {}

\* the informers of the factory that Start has not started yet
Unstarted ==
    {r \in Resources : /\ im.informerFactory.informers[r] # Nil
                       /\ r \notin im.informerFactory.startedInformers}

\* the goroutine of line 264, informerFactory.Start(im.stopCh): every
\* informer the factory holds and has not started is run on im.stopCh
FactoryStart ==
    /\ startTasks > 0
    /\ startTasks' = startTasks - 1
    /\ informers' = [id \in DOMAIN informers |->
                       IF id \in Unstarted /\ informers[id].state = "created"
                         THEN [informers[id] EXCEPT !.state = "running",
                                                    !.stopCh = im.stopCh]
                         ELSE informers[id]]
    /\ heap' = [heap EXCEPT ![Self].informerFactory.startedInformers = @ \cup Unstarted]
    /\ UNCHANGED <<slotVars, callerVars, closed, runTasks, regs, listened, listers>>

\* a goroutine of line 204, configMapInformer.Run(stopCh): an informer that
\* has been started already is left alone
InformerRun ==
    \E task \in runTasks :
        /\ runTasks' = runTasks \ {task}
        /\ informers' = IF informers[task.informer].state = "created"
                          THEN [informers EXCEPT ![task.informer].state = "running",
                                                 ![task.informer].stopCh = task.stopCh]
                          ELSE informers
        /\ UNCHANGED <<registryVars, callerVars, closed, startTasks, regs,
                       listened, listers>>

\* a running informer completes its initial list
InformerSync ==
    \E id \in DOMAIN informers :
        /\ informers[id].state = "running"
        /\ ~informers[id].synced
        /\ informers' = [informers EXCEPT ![id].synced = TRUE]
        /\ UNCHANGED <<registryVars, callerVars, closed, startTasks, runTasks,
                       regs, listened, listers>>

\* a running informer finds its stop channel closed and stops
InformerStop ==
    \E id \in DOMAIN informers :
        /\ informers[id].state = "running"
        /\ informers[id].stopCh \in closed
        /\ informers' = [informers EXCEPT ![id].state = "stopped"]
        /\ UNCHANGED <<registryVars, callerVars, closed, startTasks, runTasks,
                       regs, listened, listers>>

\* the process receives its shutdown signal: the manager's stop channel,
\* which the signal handler of line 79 returned, is closed
Cancel ==
    /\ im.stopCh \notin closed
    /\ closed' = closed \cup {im.stopCh}
    /\ UNCHANGED <<registryVars, callerVars, informers, startTasks, runTasks,
                   regs, listened, listers>>

\* ------------------------------------------------------ manager behaviour
\* the state after NewInformer(ctx, "c1", true) has returned the manager
InitManager ==
    /\ inClusterInformerManagerInstance = Self
    /\ inClusterInformerInstanceLock = NoHolder
    /\ supervisorInformerManagerInstance = NilManager
    /\ supervisorInformerInstanceLock = NoHolder
    /\ heap = <<NewManager("c1", Self)>>
    /\ returned = <<[inClusterClnt |-> TRUE, client |-> "c1", result |-> Self]>>
    /\ pc = [g \in Goroutines |-> "idle"]
    /\ op = [g \in Goroutines |-> NoOp]
    /\ informers = << >>
    /\ closed = {}
    /\ startTasks = 0
    /\ runTasks = {}
    /\ regs = {}
    /\ listened = {}
    /\ listers = {}

\* a workload: how often each call may be issued
Workload(names, n) == [c \in CallNames |-> IF c \in names THEN n ELSE 0]

TrackedListeners == {"AddPVListener", "AddPVCListener", "AddPodListener",
                     "AddConfigMapListener"}
UntrackedListeners == {"AddNodeListener", "AddCSINodeListener",
                       "AddNamespaceListener", "AddVolumeAttachmentListener"}

Background == FactoryStart \/ InformerRun \/ InformerSync \/ InformerStop \/ Cancel

\* callers register the four listeners the barrier tracks and call Listen
Next ==
    \/ \E g \in {Caller} :
          \/ AddPVListener(g)
          \/ AddPVCListener(g)
          \/ AddPodListener(g)
          \/ AddConfigMapListener(g)
          \/ Listen(g)
    \/ Background

Init ==
    /\ InitManager
    /\ calls = MaxCalls
    /\ budget = Workload(TrackedListeners \cup {"Listen"}, MaxRepeat)

Spec == Init /\ [][Next]_vars

\* a caller registers the tracked listeners and takes the four listers
InitListers ==
    /\ InitManager
    /\ calls = MaxCalls
    /\ budget = Workload(TrackedListeners \cup ListerNames, MaxRepeat)

NextListers ==
    \/ \E g \in {Caller} :
          \/ AddPVListener(g)
          \/ AddPVCListener(g)
          \/ AddPodListener(g)
          \/ AddConfigMapListener(g)
          \/ GetPVLister(g)
          \/ GetPVCLister(g)
          \/ GetPodLister(g)
          \/ GetConfigMapLister(g)
    \/ InformerRun \/ InformerSync

SpecListers == InitListers /\ [][NextListers]_vars

\* a caller registers the tracked listeners, takes the persistent-volume
\* and the config-map lister and calls Listen
InitStartup ==
    /\ InitManager
    /\ calls = MaxStartupCalls
    /\ budget = Workload(TrackedListeners \cup
                            {"GetPVLister", "GetConfigMapLister", "Listen"}, MaxRepeat)

NextStartup ==
    \/ \E g \in {Caller} :
          \/ AddPVListener(g)
          \/ AddPVCListener(g)
          \/ AddPodListener(g)
          \/ AddConfigMapListener(g)
          \/ GetPVLister(g)
          \/ GetConfigMapLister(g)
          \/ Listen(g)
    \/ Background

SpecStartup == InitStartup /\ [][NextStartup]_vars

\* the behaviours of Spec in which every goroutine that can take a step
\* takes it in the end; whether and when the shutdown signal arrives and
\* whether an initial list completes is up to the environment
FairSpec ==
    /\ Spec
    /\ WF_vars(\E g \in {Caller} : \/ AddPVListener(g)
                                   \/ AddPVCListener(g)
                                   \/ AddPodListener(g)
                                   \/ AddConfigMapListener(g)
                                   \/ Listen(g))
    /\ WF_vars(FactoryStart)
    /\ WF_vars(InformerRun)
    /\ WF_vars(InformerStop)

\* a caller registers the listeners that assign a synced field and calls
\* Listen; an attachment may be answered with an error; the shutdown signal
\* does not arrive
InitRejected ==
    /\ InitManager
    /\ calls = MaxCalls
    /\ budget = Workload(TrackedListeners \cup {"AddNamespaceListener", "Listen"}, MaxRepeat)

NextRejected ==
    \/ \E g \in {Caller} :
          \/ AddPVListener(g)
          \/ AddPVCListener(g)
          \/ AddPodListener(g)
          \/ AddConfigMapListener(g)
          \/ AddNamespaceListener(g)
          \/ \E l \in Listeners : AddListenerAttachRejected(g, l)
          \/ ListenCall(g)
          \/ ListenCheck(g)
          \/ ListenWaitFirst(g)
          \/ ListenWaitSynced(g)
    \/ FactoryStart \/ InformerRun \/ InformerSync

SpecRejected == InitRejected /\ [][NextRejected]_vars

\* the behaviours of SpecRejected in which the caller and every goroutine
\* launched with `go` go on while they can, and the initial list of every
\* running informer completes
FairSpecRejected ==
    /\ SpecRejected
    /\ WF_vars(\E g \in {Caller} : \/ AddPVListener(g)
                                   \/ AddPVCListener(g)
                                   \/ AddPodListener(g)
                                   \/ AddConfigMapListener(g)
                                   \/ AddNamespaceListener(g)
                                   \/ ListenCall(g)
                                   \/ ListenCheck(g)
                                   \/ ListenWaitFirst(g)
                                   \/ ListenWaitSynced(g))
    /\ WF_vars(FactoryStart)
    /\ WF_vars(InformerRun)
    /\ WF_vars(InformerSync)

\* the goroutine that calls Listen while another one registers
Listener == "g2"

\* one goroutine registers the four tracked listeners while another one
\* calls Listen
InitConcurrent ==
    /\ InitManager
    /\ calls = MaxCalls
    /\ budget = Workload(TrackedListeners \cup {"Listen"}, MaxRepeat)

NextConcurrent ==
    \/ \E g \in {Caller} :
          \/ AddPVListener(g)
          \/ AddPVCListener(g)
          \/ AddPodListener(g)
          \/ AddConfigMapListener(g)
    \/ \E g \in {Listener} :
          \/ ListenCall(g)
          \/ ListenCheck(g)
          \/ ListenWaitFirst(g)
          \/ ListenWaitSynced(g)
    \/ FactoryStart \/ InformerRun \/ InformerSync

SpecConcurrent == InitConcurrent /\ [][NextConcurrent]_vars

\* a caller registers the config-map listener repeatedly and the pod listener
InitConfigMap ==
    /\ InitManager
    /\ calls = MaxCalls
    /\ budget = [c \in CallNames |->
                   CASE c = "AddConfigMapListener" -> MaxSameListener
                     [] c = "AddPodListener" -> MaxRepeat
                     [] OTHER -> 0]

NextConfigMap ==
    \/ \E g \in {Caller} :
          \/ AddConfigMapListener(g)
          \/ AddPodListener(g)
    \/ InformerRun \/ InformerSync

SpecConfigMap == InitConfigMap /\ [][NextConfigMap]_vars

\* a caller registers the listeners the barrier does not track, repeatedly,
\* and calls Listen, which finds the tracked predicates unset
InitUntracked ==
    /\ InitManager
    /\ calls = MaxCalls
    /\ budget = [c \in CallNames |->
                   CASE c \in UntrackedListeners -> MaxSameListener
                     [] c = "Listen" -> MaxRepeat
                     [] OTHER -> 0]

NextUntracked ==
    \/ \E g \in {Caller} :
          \/ AddNodeListener(g)
          \/ AddCSINodeListener(g)
          \/ AddNamespaceListener(g)
          \/ AddVolumeAttachmentListener(g)
          \/ ListenCall(g)
          \/ ListenCheck(g)
    \/ FactoryStart \/ InformerSync \/ InformerStop \/ Cancel

SpecUntracked == InitUntracked /\ [][NextUntracked]_vars

\* the behaviours of SpecUntracked in which the caller goes on while it can
\* and the goroutine of every `go informerFactory.Start` gets to run
FairSpecUntracked ==
    /\ SpecUntracked
    /\ WF_vars(\E g \in {Caller} : \/ AddNodeListener(g)
                                   \/ AddCSINodeListener(g)
                                   \/ AddNamespaceListener(g)
                                   \/ AddVolumeAttachmentListener(g)
                                   \/ ListenCall(g)
                                   \/ ListenCheck(g))
    /\ WF_vars(FactoryStart)
    /\ WF_vars(InformerStop)

\* a caller registers tracked and untracked listeners, takes listers and
\* calls Listen, in any order; the shutdown signal does not arrive
InitMixed ==
    /\ InitManager
    /\ calls = MaxStartupCalls
    /\ budget = Workload(TrackedListeners \cup
                            {"AddCSINodeListener", "AddNamespaceListener",
                             "GetPodLister", "Listen"}, MaxRepeat)

NextMixed ==
    \/ \E g \in {Caller} :
          \/ AddCSINodeListener(g)
          \/ AddPVCListener(g)
          \/ AddPVListener(g)
          \/ AddNamespaceListener(g)
          \/ AddConfigMapListener(g)
          \/ AddPodListener(g)
          \/ GetPodLister(g)
          \/ ListenCall(g)
          \/ ListenCheck(g)
          \/ ListenWaitFirst(g)
          \/ ListenWaitSynced(g)
    \/ FactoryStart \/ InformerRun \/ InformerSync

SpecMixed == InitMixed /\ [][NextMixed]_vars

\* two goroutines register the config-map and the pod listener concurrently
InitRace ==
    /\ InitManager
    /\ calls = MaxCalls
    /\ budget = Workload({"AddConfigMapListener", "AddPodListener"}, MaxSameListener)

NextRace ==
    \/ \E g \in Goroutines :
          \/ AddConfigMapListener(g)
          \/ AddPodListener(g)
    \/ InformerRun \/ InformerSync

SpecRace == InitRace /\ [][NextRace]_vars

\* ------------------------------------------------------- registry behaviour
\* the state of lines 45-50 before any call
InitRegistry ==
    /\ inClusterInformerManagerInstance = NilManager
    /\ inClusterInformerInstanceLock = NoHolder
    /\ supervisorInformerManagerInstance = NilManager
    /\ supervisorInformerInstanceLock = NoHolder
    /\ heap = << >>
    /\ returned = << >>
    /\ pc = [g \in Goroutines |-> "idle"]
    /\ op = [g \in Goroutines |-> NoOp]
    /\ budget = Workload({"NewInformer"}, MaxNewInformerCalls)
    /\ calls = 0
    /\ informers = << >>
    /\ closed = {}
    /\ startTasks = 0
    /\ runTasks = {}
    /\ regs = {}
    /\ listened = {}
    /\ listers = {}

NextRegistry == \E g \in Goroutines : NewInformer(g)

SpecRegistry == InitRegistry /\ [][NextRegistry]_vars

\* ------------------------------------------------------------------ C1
\* the managers a call for the identity has obtained, stored or returned
ManagersFor(f) ==
    {i \in 1..Len(heap) :
        \/ i = InstanceOf(f)
        \/ \E g \in Goroutines : /\ op[g].name = "NewInformer"
                                 /\ op[g].inClusterClnt = f
                                 /\ op[g].informerInstance = i
        \/ \E k \in 1..Len(returned) : /\ returned[k].inClusterClnt = f
                                       /\ returned[k].result = i}

\* the NewInformer calls for the identity that have returned, oldest first
ReturnedFor(f) == SelectSeq(returned, LAMBDA r : r.inClusterClnt = f)

\* C1: for each identity at most one manager is ever constructed, every
\* NewInformer call for the identity returns the manager held in its slot,
\* and that manager keeps the client of the first call whatever client the
\* later calls passed.
C1_OneManagerPerIdentity ==
    \A f \in BOOLEAN :
        /\ Cardinality(ManagersFor(f)) <= 1
        /\ \A k \in 1..Len(ReturnedFor(f)) :
              /\ ReturnedFor(f)[k].result # NilManager
              /\ ReturnedFor(f)[k].result = InstanceOf(f)
              /\ heap[InstanceOf(f)].client = ReturnedFor(f)[1].client

\* two calls for one identity with different clients have both returned
C1_Witness ==
    \E f \in BOOLEAN :
        /\ Len(ReturnedFor(f)) >= 2
        /\ ReturnedFor(f)[1].client # ReturnedFor(f)[2].client
        /\ ReturnedFor(f)[2].result = ReturnedFor(f)[1].result

\* ------------------------------------------------------------------ C2
\* the four tracked kinds all report synchronized
TrackedKindsSynced ==
    \A k \in 1..4 : im[Tracked[k]] # Nil /\ informers[im[Tracked[k]]].synced

\* C2 as stated: whenever the cancellation signal has fired and the four
\* tracked kinds have not all reported synchronized, a Listen that returns
\* returns the nil signal.
C2_CancelledBeforeSyncedReturnsNil ==
    \A r \in listened :
        (r.cancelled /\ ~TrackedKindsSynced) => r.result = NilChan

\* C2 amended: a Listen that found all four predicates set and whose wait
\* ended while the four kinds it waited for had not all reported
\* synchronized returns the nil signal, never the live one.
C2_FailedWaitReturnsNil ==
    \A r \in listened :
        (r.entered /\ \E k \in 1..4 : ~informers[r.syncs[k]].synced)
            => (r.result = NilChan /\ r.result # im.stopCh)

\* a Listen went into the wait, was cancelled there and returned nil
C2_Witness ==
    \E r \in listened :
        /\ r.entered
        /\ r.cancelled
        /\ \E k \in 1..4 : ~informers[r.syncs[k]].synced
        /\ r.result = NilChan

\* ------------------------------------------------------------------ C3
\* C3: a Listen that found one of the four synced predicates unset went
\* into no wait and returned the manager's own cancellation signal.
C3_UnsetPredicateSkipsBarrier ==
    \A r \in listened :
        (\E k \in 1..4 : r.seen[k] = Nil)
            => (~r.entered /\ r.result = im.stopCh)

\* a Listen skipped the barrier with the signal fired, one predicate unset
\* and another one set whose watcher had synced
C3_Witness ==
    \E r \in listened :
        /\ \E k \in 1..4 : r.seen[k] = Nil
        /\ \E k \in 1..4 : r.seen[k] # Nil /\ informers[r.seen[k]].synced
        /\ r.cancelled
        /\ r.result = im.stopCh

\* ------------------------------------------------------------------ C4
\* C4: once a Listen that waited at the barrier has returned the live,
\* uncancelled signal, the cache behind every lister a caller has taken has
\* completed its initial list.
C4_ListersSyncedAfterListen ==
    \A r \in listened :
        (r.entered /\ r.result = im.stopCh /\ ~r.cancelled)
            => \A x \in listers : informers[x.informer].synced

\* ------------------------------------------------------------------ C5
\* C5: once the manager's cancellation signal has fired, eventually no
\* watcher of the manager is running and no Listen is waiting in the barrier.
C5_CancelStopsEveryWatcher ==
    (im.stopCh \in closed)
        ~> (/\ \A id \in DOMAIN informers : informers[id].state # "running"
            /\ \A g \in Goroutines : pc[g] # "ls_wait")

\* ------------------------------------------------------------------ C6
\* the registrations that launched the config-map informer's Run
RunLaunches == {r \in regs : r.run # Nil}

\* C6: however many AddConfigMapListener calls have returned, the
\* config-map watcher's run loop has been launched no more than once, and
\* once as soon as one call had its handler accepted.
C6_RunLoopStartedOnce ==
    /\ Cardinality(RunLaunches) <= 1
    /\ (\E r \in regs : r.listener = "AddConfigMapListener" /\ r.accepted)
          => Cardinality(RunLaunches) = 1

\* ------------------------------------------------------------------ C7
\* C7: for every resource kind at most one watcher is ever constructed, and
\* every registration's callbacks sit on the watcher the manager holds for
\* the listener.
C7_WatcherConstructedOnce ==
    /\ \A k \in Resources :
          Cardinality({id \in DOMAIN informers : informers[id].resource = k}) <= 1
    /\ \A r \in regs :
          r.accepted => r.informer = im[ListenerField(r.listener)]

\* ------------------------------------------------------------------ C8
\* C8: the callbacks of every accepted registration sit on a watcher of the
\* listener's own resource kind.
C8_CallbacksOnWatcherOfKind ==
    \A r \in regs :
        r.accepted => informers[r.informer].resource = ListenerKind(r.listener)

\* ------------------------------------------------------------------ C9
\* the callback triples an event of the watcher is delivered to
Handlers(id) == {informers[id].handlers[k] : k \in 1..Len(informers[id].handlers)}

\* C9: two accepted registrations through the same listener are both
\* attached to one watcher of the listener's kind, so that an event of that
\* kind reaches both.
C9_RegistrationsCumulative ==
    \A r1, r2 \in regs :
        (r1 # r2 /\ r1.listener = r2.listener /\ r1.accepted /\ r2.accepted)
            => \E id \in DOMAIN informers :
                  /\ informers[id].resource = ListenerKind(r1.listener)
                  /\ {r1.add, r2.add} \subseteq Handlers(id)

\* ------------------------------------------------------------------ C10
\* C10: a lister taken for a kind whose listener has been registered reads
\* the watcher that registration stored and whose synced predicate the
\* barrier consults.
C10_ListerReadsRegisteredWatcher ==
    \A x \in listers : \A l \in TrackedListeners :
        (ListenerResource(l) = ListerResource(x.name) /\ im[ListenerSynced(l)] # Nil)
            => (x.informer = im[ListenerField(l)] /\ x.informer = im[ListenerSynced(l)])

\* ------------------------------------------------------------------ C11
\* the NewInformer calls that have returned for the in-cluster identity
\* (TRUE) or the supervisor identity (FALSE)
ReturnsOf(f) == {returned[k] : k \in {j \in 1..Len(returned) : returned[j].inClusterClnt = f}}

\* the call of the goroutine is between its Lock and its deferred Unlock
InCriticalSection(g) == pc[g] \in {"ni_read", "ni_create", "ni_store", "ni_return"}

\* the two slots and the returned managers are kept apart by identity
C11_SlotsApart ==
    /\ (inClusterInformerManagerInstance # NilManager
          /\ supervisorInformerManagerInstance # NilManager)
         => inClusterInformerManagerInstance # supervisorInformerManagerInstance
    /\ \A r1 \in ReturnsOf(TRUE), r2 \in ReturnsOf(FALSE) : r1.result # r2.result
    /\ \A r \in ReturnsOf(TRUE) : r.result = inClusterInformerManagerInstance
    /\ \A r \in ReturnsOf(FALSE) : r.result = supervisorInformerManagerInstance

\* a step of a NewInformer call leaves the slot of the other identity alone
C11_OtherSlotUntouched ==
    \A g \in Goroutines :
        (InCriticalSection(g) /\ pc'[g] # pc[g]) =>
            IF op[g].inClusterClnt
              THEN supervisorInformerManagerInstance' = supervisorInformerManagerInstance
              ELSE inClusterInformerManagerInstance' = inClusterInformerManagerInstance

\* C11: the two identity slots never hold the same manager, no call for one
\* identity returns a manager that a call for the other identity returned,
\* every call returns what the slot of its own identity holds, and no step
\* of a call for one identity changes the slot of the other identity.
C11_IdentitiesNeverShare == []C11_SlotsApart /\ [][C11_OtherSlotUntouched]_vars

\* calls for both identities have returned and both slots are set
C11_Witness ==
    /\ inClusterInformerManagerInstance # NilManager
    /\ supervisorInformerManagerInstance # NilManager
    /\ ReturnsOf(TRUE) # {}
    /\ ReturnsOf(FALSE) # {}

\* ------------------------------------------------------------------ C18
\* C18: a call that is reading, testing, writing or about to return holds
\* the mutex of its own identity and not the other one, and a call waiting
\* to lock can go on as soon as the mutex of its own identity is free,
\* whoever holds the other one.
C18_IndependentLocks ==
    \A g \in Goroutines :
        /\ InCriticalSection(g) =>
              IF op[g].inClusterClnt
                THEN /\ inClusterInformerInstanceLock = g
                     /\ supervisorInformerInstanceLock # g
                ELSE /\ supervisorInformerInstanceLock = g
                     /\ inClusterInformerInstanceLock # g
        /\ (pc[g] = "ni_lock" /\ op[g].inClusterClnt
               /\ inClusterInformerInstanceLock = NoHolder)
              => ENABLED NewInformerLock(g)
        /\ (pc[g] = "ni_lock" /\ ~op[g].inClusterClnt
               /\ supervisorInformerInstanceLock = NoHolder)
              => ENABLED NewInformerLock(g)

\* a call for one identity is about to lock while a call for the other
\* identity holds that identity's mutex
C18_Witness ==
    \E g, h \in Goroutines :
        /\ pc[g] = "ni_lock"
        /\ InCriticalSection(h)
        /\ op[g].inClusterClnt # op[h].inClusterClnt
        /\ ENABLED NewInformerLock(g)

\* ------------------------------------------------------------------ C17
\* C17: every watcher of the manager, the config-map watcher included, is
\* constructed against the client handle the manager stores, whatever
\* client a registration call was given.
C17_WatchersUseStoredClient ==
    \A id \in DOMAIN informers : informers[id].client = im.client

\* ------------------------------------------------------------------ C13
\* every listener the barrier tracks has a registration that returned
AllTrackedRegistered ==
    \A l \in TrackedListeners : \E r \in regs : r.listener = l

\* C13: a Listen called after the four tracked listeners were registered,
\* attachments rejected or not, returns the live cancellation signal in the
\* end when the signal never fires and every started watcher syncs.
C13_ListenReturnsLiveSignal ==
    (pc[Caller] = "ls_check" /\ AllTrackedRegistered)
        ~> (\E r \in listened : r.entered /\ r.result = im.stopCh)

\* ------------------------------------------------------------------ C14
\* the registrations whose attachment was answered with an error
Rejected == {r \in regs : ~r.accepted}

\* C14: a registration whose attachment was rejected has returned, its
\* callback is on no watcher, the watcher field it ensured is still set and
\* so is the synced field of the pv, pvc, pod, namespace and config-map
\* listeners; a config-map registration launched the run loop exactly when
\* its attachment was accepted.
C14_RejectionLeavesStateInPlace ==
    /\ \A r \in Rejected :
          /\ \A id \in DOMAIN informers :
                \A k \in 1..Len(informers[id].handlers) :
                    informers[id].handlers[k] # r.add
          /\ im[ListenerField(r.listener)] # Nil
          /\ ListenerSynced(r.listener) # Nil => im[ListenerSynced(r.listener)] # Nil
    /\ \A r \in regs :
          /\ r.listener = "AddConfigMapListener" => (r.run # Nil <=> r.accepted)
          /\ r.listener # "AddConfigMapListener" => r.run = Nil

\* a config-map registration and a registration on a shared-factory watcher
\* were both rejected while another registration was accepted
C14_Witness ==
    /\ \E r \in Rejected : r.listener = "AddConfigMapListener"
    /\ \E r \in Rejected : r.listener # "AddConfigMapListener"
    /\ \E r \in regs : r.accepted

\* ------------------------------------------------------------------ C12
\* C12: when Listen has found the four tracked synced fields set and goes
\* on to consult them, the watcher of each tracked kind has been created
\* and a registration of that kind has got past its handler attachment.
C12_ConsultedPredicateIsAttached ==
    \A g \in Goroutines :
        pc[g] \in {"ls_args", "ls_wait"} =>
            \A l \in TrackedListeners :
                /\ im[ListenerField(l)] # Nil
                /\ \E r \in regs : r.listener = l

\* ------------------------------------------------------------------ C15
\* Listen has been called on the manager
ListenCalled == listened # {} \/ \E g \in Goroutines : pc[g] \in {"ls_check", "ls_args", "ls_wait"}

\* the watchers the shared factory has constructed
FactoryWatchers == {r \in Resources : im.informerFactory.informers[r] # Nil}

\* the watchers of the shared factory that a batch-start has started
FactoryStarted == im.informerFactory.startedInformers

\* before the first Listen call no watcher of the shared factory has left
\* the state its constructor gave it
C15_NoneRunsBeforeListen ==
    ~ListenCalled =>
        /\ FactoryStarted = {}
        /\ \A r \in FactoryWatchers : informers[r].state = "created"

\* C15 as stated: once Listen has been called, every watcher the shared
\* factory holds, whenever it was registered, is started in the end, and
\* none runs before the first Listen call.
C15_EveryWatcherStartedAfterListen ==
    /\ []C15_NoneRunsBeforeListen
    /\ \A r \in Resources :
          (ListenCalled /\ r \in FactoryWatchers) ~> (r \in FactoryStarted)

\* C15: every watcher the shared factory holds while a batch-start task of
\* a Listen call is still to run is started in the end, whether it was
\* registered before that Listen call or while the task was pending; none
\* runs before the first Listen call.
C15_WatcherStartedByPendingStart ==
    /\ []C15_NoneRunsBeforeListen
    /\ \A r \in Resources :
          (startTasks > 0 /\ r \in FactoryWatchers) ~> (r \in FactoryStarted)

\* every batch-start task has run, it started a watcher, and a watcher
\* registered later is left unstarted
C15_Witness ==
    /\ ListenCalled
    /\ startTasks = 0
    /\ FactoryStarted # {}
    /\ FactoryWatchers \ FactoryStarted # {}

\* ------------------------------------------------------------------ C16
\* the listeners whose synced fields the barrier reads, in the order of Tracked
TrackedBy == <<"AddPVListener", "AddPVCListener", "AddPodListener", "AddConfigMapListener">>

\* a call of the listener has got past the assignment of its synced field
PastSynced(l) ==
    \/ \E r \in regs : r.listener = l
    \/ \E g \in Goroutines : op[g].name = l /\ pc[g] \in {"al_attach", "al_run"}

\* each consulted field is set exactly when its own listener has assigned
\* it, and a Listen waited exactly when it found the four of them set
C16_BarrierFollowsTracked ==
    /\ \A k \in 1..4 : im[Tracked[k]] # Nil <=> PastSynced(TrackedBy[k])
    /\ \A r \in listened :
          /\ r.entered <=> \A k \in 1..4 : r.seen[k] # Nil
          /\ ~r.entered => r.result = im.stopCh

\* a step that is not the synced assignment of a tracked listener leaves
\* the four consulted fields as they are
C16_OthersLeaveTracked ==
    (\A g \in Goroutines : ~(pc[g] = "al_synced" /\ op[g].name \in TrackedListeners
                               /\ pc'[g] = "al_attach"))
        => \A k \in 1..4 : im'[Tracked[k]] = im[Tracked[k]]

\* C16: the four synced fields Listen consults are set by the pv, pvc, pod
\* and config-map listeners only: node, CSI-node, namespace and
\* volume-attachment registrations and lister calls leave them unchanged,
\* so whether a Listen waits, and what a Listen that does not wait
\* returns, follows from the tracked registrations alone.
C16_OnlyTrackedListenersMoveBarrier ==
    []C16_BarrierFollowsTracked /\ [][C16_OthersLeaveTracked]_vars

\* untracked listeners were registered and a lister taken, and a Listen
\* that followed skipped the barrier
C16_Witness ==
    /\ \E r \in regs : r.listener \in UntrackedListeners
    /\ listers # {}
    /\ \E r \in listened : ~r.entered

====
